---- MODULE Spec2Model ----
(***************************************************************************)
(* Model of the user and messaging back end: the user service and its     *)
(* controller (server/services/user.service.ts,                           *)
(* server/controllers/user.controller.ts), the message service and its    *)
(* controller (services/message.service.ts,                               *)
(* server/controllers/message.controller.ts) and the client wrappers      *)
(* (client/src/services/messageService.ts).                               *)
(*                                                                         *)
(* Every HTTP request runs in atomic pieces, as the async handlers do: the  *)
(* synchronous prefix of the handler (validation, building the service     *)
(* call), then the single storage operation the service awaits together    *)
(* with the mapping of its result to a response.  The add-message handler  *)
(* has its emit and its 201 response as two further pieces, in the order   *)
(* of the statements.  The user and the message subsystems share no state  *)
(* and are checked under SpecUsers and SpecMessages.                       *)
(***************************************************************************)
EXTENDS Integers, Sequences, FiniteSets, TLC

VARIABLES
    users,      \* the user collection: a set of stored user documents
    ureq,       \* per client: the user request in flight and its response
    messages,   \* the message collection, in insertion order
    emitted,    \* the events sent on the socket, in emission order
    mreq        \* per client: the message request in flight and its response

vars == <<users, ureq, messages, emitted, mreq>>

(***************************************************************************)
(* Inputs.                                                                 *)
(***************************************************************************)
\* the connections that may have a request in flight at the same time
Clients == {"c1", "c2"}

\* values a request may carry as username / password; "" is the empty string,
\* an absent field is a body whose DOMAIN lacks the field
Usernames == {"sana", "user2"}
Passwords == {"sanaPassword", "pw2"}
\* readings of the server clock (new Date())
Dates == {"2023-12-11"}
\* messages of the exceptions the storage driver raises
UserDbErrors == {"DB error"}

\* the number of documents the user collection can hold in the model
MaxUsers == 3
UserIds == 1..MaxUsers

\* what an add-message request may carry
MsgTexts == {"Hello"}
MsgSenders == {"User1"}
MsgDates == {"2024-06-04", "2024-06-05"}
\* messages of the exceptions the storage driver raises on the message
\* collection; new Error() carries the empty message
MsgDbErrors == {"DB error", ""}

\* the number of documents the message collection can hold in the model
MaxMessages == 2

(***************************************************************************)
(* Strings.                                                                *)
(***************************************************************************)
\* String.prototype.includes / jest's toContain on strings
Contains(s, t) ==
    \E i \in 1..(Len(s) - Len(t) + 1) : SubSeq(s, i, i + Len(t) - 1) = t

\* JavaScript truthiness of obj[f] for a string-valued field: undefined
\* (absent) and "" are falsy
Truthy(obj, f) == f \in DOMAIN obj /\ obj[f] # ""

\* JavaScript truthiness of obj[f] for an object-valued field: only undefined
\* (absent) is falsy
TruthyObject(obj, f) == f \in DOMAIN obj

\* 'error' in result
IsError(result) == "error" \in DOMAIN result

\* an awaited service call that rejects hands the handler its exception
\* instead of a result
Rejection(m) == [thrown |-> m]
IsRejection(result) == "thrown" \in DOMAIN result

(***************************************************************************)
(* Request bodies.                                                         *)
(***************************************************************************)
UserFields == {"username", "password"}

\* a JSON body holding the fields D, with these values
MkBody(D, username, password) ==
    [f \in D |-> IF f = "username" THEN username ELSE password]

ValidUserBodies ==
    { MkBody(UserFields, u, p) : u \in Usernames, p \in Passwords }

\* a field missing, or present and empty
InvalidUserBodies ==
    { MkBody({}, "", ""),
      MkBody({"username"}, "sana", ""),
      MkBody({"password"}, "", "sanaPassword"),
      MkBody(UserFields, "", "sanaPassword"),
      MkBody(UserFields, "sana", "") }

UserBodies == ValidUserBodies \cup InvalidUserBodies

\* req.params of GET /user/:username and DELETE /user/:username
UserParams ==
    { MkBody({"username"}, u, "") : u \in Usernames \cup {""} }

NoValue == <<>>

IdleReq == [pc |-> "idle", kind |-> "none", body |-> NoValue, call |-> NoValue,
            status |-> 0, res |-> NoValue]

(***************************************************************************)
(* The user collection (models/users.model: username is unique).  A       *)
(* storage call yields what it hands back to the service and the          *)
(* collection it leaves; it may also raise, leaving the collection as is. *)
(***************************************************************************)
Threw(m) == [threw |-> TRUE, message |-> m, found |-> FALSE, doc |-> NoValue]
Null == [threw |-> FALSE, message |-> "", found |-> FALSE, doc |-> NoValue]
Found(d) == [threw |-> FALSE, message |-> "", found |-> TRUE, doc |-> d]

Raises(store) == { [outcome |-> Threw(m), store |-> store] : m \in UserDbErrors }

\* the documents matching the filter {username}
Matching(store, username) == { u \in store : u.username = username }

\* the unique index on username: create is refused when the name is taken
UniqueViolation(store, username) == Matching(store, username) # {}

\* the _id the database generates for a new document: one no document has
FreeIds(store) == { i \in UserIds : \A u \in store : u._id # i }
FreshIds(store) ==
    { i \in FreeIds(store) : \A j \in FreeIds(store) : i <= j }

\* UserModel.create(user)
Create(store, user) ==
    IF UniqueViolation(store, user.username)
    THEN { [outcome |-> Threw("E11000 duplicate key error"), store |-> store] }
    ELSE { [outcome |-> Found(doc), store |-> store \cup {doc}] :
             doc \in { [_id |-> id, username |-> user.username,
                        password |-> user.password,
                        dateJoined |-> user.dateJoined] : id \in FreshIds(store) } }

\* UserModel.findOne({username})
FindOne(store, username) ==
    IF Matching(store, username) = {}
    THEN { [outcome |-> Null, store |-> store] }
    ELSE { [outcome |-> Found(u), store |-> store] : u \in Matching(store, username) }

\* UserModel.findOneAndDelete({username})
FindOneAndDelete(store, username) ==
    IF Matching(store, username) = {}
    THEN { [outcome |-> Null, store |-> store] }
    ELSE { [outcome |-> Found(u), store |-> store \ {u}] :
             u \in Matching(store, username) }

\* the document an update leaves: the fields of updates overwritten
ApplyUpdates(doc, updates) ==
    [f \in DOMAIN doc |-> IF f \in DOMAIN updates THEN updates[f] ELSE doc[f]]

\* UserModel.findOneAndUpdate({username}, updates, {new: true})
FindOneAndUpdate(store, username, updates) ==
    IF Matching(store, username) = {}
    THEN { [outcome |-> Null, store |-> store] }
    ELSE { [outcome |-> Found(ApplyUpdates(u, updates)),
            store |-> (store \ {u}) \cup {ApplyUpdates(u, updates)}] :
             u \in Matching(store, username) }

(***************************************************************************)
(* user.service.ts.  A service call yields, for each thing the storage    *)
(* call can do, the result the service returns and the collection left.   *)
(***************************************************************************)
\* const { password, ...safeUser } = doc
StripPasswordKept(doc) == doc
StripPassword(doc) == [f \in DOMAIN doc \ {"password"} |-> doc[f]]

Returned(o, result) == [outcome |-> o.outcome, store |-> o.store, res |-> result]

saveUserRethrows(store, user) ==
    { Returned(o,
        IF o.outcome.threw
        THEN Rejection(o.outcome.message)
        ELSE StripPassword(o.outcome.doc)) :
      o \in Create(store, user) \cup Raises(store) }
saveUser(store, user) ==
    { Returned(o,
        IF o.outcome.threw
        THEN [error |-> "Error when saving user: " \o o.outcome.message]
        ELSE StripPassword(o.outcome.doc)) :
      o \in Create(store, user) \cup Raises(store) }

getUserByUsernameRethrows(store, username) ==
    { Returned(o,
        IF o.outcome.threw
        THEN Rejection(o.outcome.message)
        ELSE IF ~o.outcome.found
        THEN [error |-> "User not found"]
        ELSE StripPassword(o.outcome.doc)) :
      o \in FindOne(store, username) \cup Raises(store) }
getUserByUsername(store, username) ==
    { Returned(o,
        IF o.outcome.threw
        THEN [error |-> "Error when saving user: " \o o.outcome.message]
        ELSE IF ~o.outcome.found
        THEN [error |-> "User not found"]
        ELSE StripPassword(o.outcome.doc)) :
      o \in FindOne(store, username) \cup Raises(store) }

loginUserAnyPassword(store, loginCredentials) ==
    { Returned(o,
        IF o.outcome.threw
        THEN [error |-> "Error logging in user saving user: " \o o.outcome.message]
        ELSE IF ~o.outcome.found
        THEN [error |-> "User not found."]
        ELSE StripPassword(o.outcome.doc)) :
      o \in FindOne(store, loginCredentials.username) \cup Raises(store) }
loginUserSwapped(store, loginCredentials) ==
    { Returned(o,
        IF o.outcome.threw
        THEN [error |-> "Error logging in user saving user: " \o o.outcome.message]
        ELSE IF ~o.outcome.found
        THEN [error |-> "Invalid username or password."]
        ELSE IF o.outcome.doc.password # loginCredentials.password
        THEN [error |-> "User not found."]
        ELSE StripPassword(o.outcome.doc)) :
      o \in FindOne(store, loginCredentials.username) \cup Raises(store) }
loginUser(store, loginCredentials) ==
    { Returned(o,
        IF o.outcome.threw
        THEN [error |-> "Error logging in user saving user: " \o o.outcome.message]
        ELSE IF ~o.outcome.found
        THEN [error |-> "User not found."]
        ELSE IF o.outcome.doc.password # loginCredentials.password
        THEN [error |-> "Invalid username or password."]
        ELSE StripPassword(o.outcome.doc)) :
      o \in FindOne(store, loginCredentials.username) \cup Raises(store) }

deleteUserByUsernameKeeps(store, username) ==
    { Returned(o,
        IF o.outcome.threw
        THEN [error |-> "Error deleting user: " \o o.outcome.message]
        ELSE IF ~o.outcome.found
        THEN [error |-> "User not found."]
        ELSE StripPassword(o.outcome.doc)) :
      o \in FindOne(store, username) \cup Raises(store) }
deleteUserByUsernameRetries(store, username) ==
    { Returned(o,
        IF ~o.outcome.found
        THEN [error |-> "User not found."]
        ELSE StripPassword(o.outcome.doc)) :
      o \in FindOneAndDelete(store, username) }
    \cup { [outcome |-> r.outcome, store |-> o.store,
            res |-> IF ~o.outcome.found
                    THEN [error |-> "User not found."]
                    ELSE StripPassword(o.outcome.doc)] :
            r \in Raises(store), o \in FindOneAndDelete(store, username) }
deleteUserByUsername(store, username) ==
    { Returned(o,
        IF o.outcome.threw
        THEN [error |-> "Error deleting user: " \o o.outcome.message]
        ELSE IF ~o.outcome.found
        THEN [error |-> "User not found."]
        ELSE StripPassword(o.outcome.doc)) :
      o \in FindOneAndDelete(store, username) \cup Raises(store) }

updateUser(store, username, updates) ==
    { Returned(o,
        IF o.outcome.threw
        THEN [error |-> "Error updating user: " \o o.outcome.message]
        ELSE IF ~o.outcome.found
        THEN [error |-> "User not found."]
        ELSE StripPassword(o.outcome.doc)) :
      o \in FindOneAndUpdate(store, username, updates) \cup Raises(store) }

(***************************************************************************)
(* user.controller.ts.  Each handler is two actions: the handler up to    *)
(* its await (validation), and the awaited service call together with the *)
(* mapping of its result to the response.                                 *)
(***************************************************************************)
isUserBodyValidPresence(body) == "username" \in DOMAIN body /\ "password" \in DOMAIN body
isUserBodyValid(body) == Truthy(body, "username") /\ Truthy(body, "password")

Reject(kind, body, text) ==
    [pc |-> "done", kind |-> kind, body |-> body, call |-> NoValue,
     status |-> 400, res |-> [error |-> text]]

Pending(kind, body, call) ==
    [pc |-> "pending", kind |-> kind, body |-> body, call |-> call,
     status |-> 0, res |-> NoValue]

\* try { result = await service(...)
\*       if ('error' in result) res.status(errorStatus).json({error: result.error})
\*       else res.status(okStatus).json(result) }
\* catch { res.status(500).json({error: 'Server error.'}) }
Respond(r, result, errorStatus, okStatus) ==
    [r EXCEPT !.pc = "done",
              !.status = IF IsRejection(result) THEN 500
                         ELSE IF IsError(result) THEN errorStatus ELSE okStatus,
              !.res = IF IsRejection(result) THEN [error |-> "Server error."]
                      ELSE IF IsError(result) THEN [error |-> result.error]
                      ELSE result]

\* the connection has no request in flight and none answered but unread
Free(c) == ureq[c].pc = "idle"
Awaiting(c, kind) == ureq[c].pc = "pending" /\ ureq[c].kind = kind

\* POST /user/signup, up to the await of saveUser
createUser(c) ==
    /\ Free(c)
    /\ \E body \in UserBodies, now \in Dates :
         ureq' = [ureq EXCEPT ![c] =
            IF ~isUserBodyValid(body)
            THEN Reject("createUser", body, "Username and password are required.")
            ELSE Pending("createUser", body,
                         [username |-> body["username"], password |-> body["password"],
                          dateJoined |-> now])]
    /\ UNCHANGED <<users, messages, emitted, mreq>>

\* POST /user/signup, from the await of saveUser on
createUserUpsert(c) ==
    /\ Awaiting(c, "createUser")
    /\ \E id \in FreshIds(users) :
         LET user == ureq[c].call
             doc == [_id |-> id, username |-> user.username,
                     password |-> user.password, dateJoined |-> user.dateJoined]
         IN /\ users' = (users \ Matching(users, user.username)) \cup {doc}
            /\ ureq' = [ureq EXCEPT ![c] = Respond(@, StripPassword(doc), 400, 201)]
    /\ UNCHANGED <<messages, emitted, mreq>>
createUserResume(c) ==
    /\ Awaiting(c, "createUser")
    /\ \E o \in saveUser(users, ureq[c].call) :
         /\ users' = o.store
         /\ ureq' = [ureq EXCEPT ![c] = Respond(@, o.res, 400, 201)]
    /\ UNCHANGED <<messages, emitted, mreq>>

\* POST /user/login, up to the await of loginUser
userLogin(c) ==
    /\ Free(c)
    /\ \E body \in UserBodies :
         ureq' = [ureq EXCEPT ![c] =
            IF ~Truthy(body, "username") \/ ~Truthy(body, "password")
            THEN Reject("userLogin", body, "Username and password are required.")
            ELSE Pending("userLogin", body,
                         [username |-> body["username"], password |-> body["password"]])]
    /\ UNCHANGED <<users, messages, emitted, mreq>>

\* POST /user/login, from the await of loginUser on
userLoginResumeAnswers404(c) ==
    /\ Awaiting(c, "userLogin")
    /\ \E o \in loginUser(users, ureq[c].call) :
         /\ users' = o.store
         /\ ureq' = [ureq EXCEPT ![c] =
               Respond(@, o.res, IF o.res = [error |-> "User not found."]
                                 THEN 404 ELSE 401, 200)]
    /\ UNCHANGED <<messages, emitted, mreq>>
userLoginResume(c) ==
    /\ Awaiting(c, "userLogin")
    /\ \E o \in loginUser(users, ureq[c].call) :
         /\ users' = o.store
         /\ ureq' = [ureq EXCEPT ![c] = Respond(@, o.res, 401, 200)]
    /\ UNCHANGED <<messages, emitted, mreq>>

\* GET /user/:username, up to the await of getUserByUsername
getUser(c) ==
    /\ Free(c)
    /\ \E params \in UserParams :
         ureq' = [ureq EXCEPT ![c] =
            IF ~Truthy(params, "username")
            THEN Reject("getUser", params, "Username parameter is required.")
            ELSE Pending("getUser", params, [username |-> params["username"]])]
    /\ UNCHANGED <<users, messages, emitted, mreq>>

\* GET /user/:username, from the await of getUserByUsername on
getUserResumeAnswers400(c) ==
    /\ Awaiting(c, "getUser")
    /\ \E o \in getUserByUsername(users, ureq[c].call.username) :
         /\ users' = o.store
         /\ ureq' = [ureq EXCEPT ![c] = Respond(@, o.res, 400, 200)]
    /\ UNCHANGED <<messages, emitted, mreq>>
getUserResume(c) ==
    /\ Awaiting(c, "getUser")
    /\ \E o \in getUserByUsername(users, ureq[c].call.username) :
         /\ users' = o.store
         /\ ureq' = [ureq EXCEPT ![c] = Respond(@, o.res, 404, 200)]
    /\ UNCHANGED <<messages, emitted, mreq>>

\* DELETE /user/:username, up to the await of deleteUserByUsername
deleteUser(c) ==
    /\ Free(c)
    /\ \E params \in UserParams :
         ureq' = [ureq EXCEPT ![c] =
            IF ~Truthy(params, "username")
            THEN Reject("deleteUser", params, "Username parameter is required.")
            ELSE Pending("deleteUser", params, [username |-> params["username"]])]
    /\ UNCHANGED <<users, messages, emitted, mreq>>

\* DELETE /user/:username, from the await of deleteUserByUsername on
deleteUserResumeAnswers200(c) ==
    /\ Awaiting(c, "deleteUser")
    /\ \E o \in deleteUserByUsername(users, ureq[c].call.username) :
         /\ users' = o.store
         /\ ureq' = [ureq EXCEPT ![c] =
               Respond(@, o.res, IF o.res = [error |-> "User not found."]
                                 THEN 200 ELSE 404, 200)]
    /\ UNCHANGED <<messages, emitted, mreq>>
deleteUserResume(c) ==
    /\ Awaiting(c, "deleteUser")
    /\ \E o \in deleteUserByUsername(users, ureq[c].call.username) :
         /\ users' = o.store
         /\ ureq' = [ureq EXCEPT ![c] = Respond(@, o.res, 404, 200)]
    /\ UNCHANGED <<messages, emitted, mreq>>

\* PATCH /user/resetPassword, up to the await of updateUser
resetPasswordWholeBody(c) ==
    /\ Free(c)
    /\ \E body \in UserBodies :
         ureq' = [ureq EXCEPT ![c] =
            IF ~Truthy(body, "username") \/ ~Truthy(body, "password")
            THEN Reject("resetPassword", body, "Username and new password are required.")
            ELSE Pending("resetPassword", body,
                         [username |-> body["username"], updates |-> body])]
    /\ UNCHANGED <<users, messages, emitted, mreq>>
resetPassword(c) ==
    /\ Free(c)
    /\ \E body \in UserBodies :
         ureq' = [ureq EXCEPT ![c] =
            IF ~Truthy(body, "username") \/ ~Truthy(body, "password")
            THEN Reject("resetPassword", body, "Username and new password are required.")
            ELSE Pending("resetPassword", body,
                         [username |-> body["username"],
                          updates |-> [password |-> body["password"]]])]
    /\ UNCHANGED <<users, messages, emitted, mreq>>

\* PATCH /user/resetPassword, from the await of updateUser on
resetPasswordResume(c) ==
    /\ Awaiting(c, "resetPassword")
    /\ \E o \in updateUser(users, ureq[c].call.username, ureq[c].call.updates) :
         /\ users' = o.store
         /\ ureq' = [ureq EXCEPT ![c] = Respond(@, o.res, 404, 200)]
    /\ UNCHANGED <<messages, emitted, mreq>>

\* the client has read the response; its connection takes the next request
userRequestEnd(c) ==
    /\ ureq[c].pc = "done"
    /\ ureq' = [ureq EXCEPT ![c] = IdleReq]
    /\ UNCHANGED <<users, messages, emitted, mreq>>

(***************************************************************************)
(* The message collection (models/messages.model).                        *)
(***************************************************************************)
MessageFields == {"msg", "msgFrom", "msgDateTime"}

MkMessage(D, msg, msgFrom, msgDateTime) ==
    [f \in D |-> CASE f = "msg" -> msg
                   [] f = "msgFrom" -> msgFrom
                   [] OTHER -> msgDateTime]

ValidMessages ==
    { MkMessage(MessageFields, t, f, d) :
        t \in MsgTexts, f \in MsgSenders, d \in MsgDates }

\* one of the three fields missing, or present and empty
InvalidMessages ==
    { MkMessage(MessageFields \ {f}, "Hello", "User1", "2024-06-04") :
        f \in MessageFields }
    \cup { MkMessage(MessageFields, "", "User1", "2024-06-04"),
           MkMessage(MessageFields, "Hello", "", "2024-06-04"),
           MkMessage(MessageFields, "Hello", "User1", "") }

\* the bodies of POST /messaging/addMessage: {messageToAdd: m}, or {}
AddMessageBodies ==
    { [f \in {"messageToAdd"} |-> m] : m \in ValidMessages \cup InvalidMessages }
    \cup { [f \in {} |-> NoValue] }

Digit(ch) ==
    CASE ch = "0" -> 0 [] ch = "1" -> 1 [] ch = "2" -> 2 [] ch = "3" -> 3
      [] ch = "4" -> 4 [] ch = "5" -> 5 [] ch = "6" -> 6 [] ch = "7" -> 7
      [] ch = "8" -> 8 [] ch = "9" -> 9

RECURSIVE Number(_)
Number(s) ==
    IF Len(s) = 0 THEN 0
    ELSE 10 * Number(SubSeq(s, 1, Len(s) - 1)) + Digit(SubSeq(s, Len(s), Len(s)))

\* the schema's cast of "YYYY-MM-DD" to a Date, as the day it denotes
DateValue(s) ==
    Number(SubSeq(s, 1, 4)) * 10000 + Number(SubSeq(s, 6, 7)) * 100
        + Number(SubSeq(s, 9, 10))

\* a mongoose document of a stored object
Document(obj) == [toObject |-> obj]

MsgRaises(store) == { [outcome |-> Threw(m), store |-> store] : m \in MsgDbErrors }

\* MessageModel.create(message)
MsgCreate(store, message) ==
    IF Len(store) < MaxMessages
    THEN LET obj == [_id |-> Len(store) + 1, msg |-> message["msg"],
                     msgFrom |-> message["msgFrom"],
                     msgDateTime |-> DateValue(message["msgDateTime"])]
         IN { [outcome |-> Found(Document(obj)), store |-> Append(store, obj)] }
    ELSE {}

\* the orders of the collection that sort({msgDateTime: direction}) allows:
\* direction 1 ascending, -1 descending, 0 no sort (insertion order)
IndexOrders(n) ==
    { p \in [1..n -> 1..n] : \A i, j \in 1..n : p[i] = p[j] => i = j }

InOrder(a, b, direction) ==
    CASE direction = 1 -> a.msgDateTime <= b.msgDateTime
      [] direction = -1 -> a.msgDateTime >= b.msgDateTime
      [] OTHER -> a._id <= b._id

Sorted(seq, direction) ==
    \A i, j \in 1..Len(seq) : i < j => InOrder(seq[i], seq[j], direction)

Orders(store, direction) ==
    { seq \in { [i \in 1..Len(store) |-> store[p[i]]] : p \in IndexOrders(Len(store)) } :
        Sorted(seq, direction) }

\* MessageModel.find().sort({msgDateTime: direction}).exec()
MsgFind(store, direction) ==
    { [outcome |-> Found([i \in 1..Len(seq) |-> Document(seq[i])]), store |-> store] :
        seq \in Orders(store, direction) }
    \cup { [outcome |-> Null, store |-> store] }

(***************************************************************************)
(* message.service.ts                                                      *)
(***************************************************************************)
\* saved.toObject ? saved.toObject() : saved
ToObject(saved) == IF "toObject" \in DOMAIN saved THEN saved.toObject ELSE saved

saveMessageRawText(store, message) ==
    { Returned(o,
        IF o.outcome.threw
        THEN [error |-> o.outcome.message]
        ELSE ToObject(o.outcome.doc)) :
      o \in MsgCreate(store, message) \cup MsgRaises(store) }
saveMessage(store, message) ==
    { Returned(o,
        IF o.outcome.threw
        THEN [error |-> IF o.outcome.message # "" THEN o.outcome.message
                        ELSE "Failed to save message"]
        ELSE ToObject(o.outcome.doc)) :
      o \in MsgCreate(store, message) \cup MsgRaises(store) }

\* what a call hands back to its caller: a value, or an exception
Value(v) == [threw |-> FALSE, value |-> v]
Exception(m) == [threw |-> TRUE, value |-> m]

\* try { messages = await find().sort({msgDateTime: 1}); return messages.map(..) }
\* catch { return [] }: messages.map on null raises a TypeError inside the try
getMessagesUnsorted(store) ==
    { Returned(o,
        IF o.outcome.threw \/ ~o.outcome.found
        THEN Value(<<>>)
        ELSE Value([i \in 1..Len(o.outcome.doc) |-> o.outcome.doc[i].toObject])) :
      o \in MsgFind(store, 0) \cup MsgRaises(store) }
getMessagesDescending(store) ==
    { Returned(o,
        IF o.outcome.threw \/ ~o.outcome.found
        THEN Value(<<>>)
        ELSE Value([i \in 1..Len(o.outcome.doc) |-> o.outcome.doc[i].toObject])) :
      o \in MsgFind(store, -1) \cup MsgRaises(store) }
getMessagesErrorValue(store) ==
    { Returned(o,
        IF o.outcome.threw \/ ~o.outcome.found
        THEN Value([error |-> "Failed to fetch messages"])
        ELSE Value([i \in 1..Len(o.outcome.doc) |-> o.outcome.doc[i].toObject])) :
      o \in MsgFind(store, 1) \cup MsgRaises(store) }
getMessagesRethrow(store) ==
    { Returned(o,
        IF o.outcome.threw
        THEN Exception(o.outcome.message)
        ELSE IF ~o.outcome.found
        THEN Exception("Cannot read properties of null (reading 'map')")
        ELSE Value([i \in 1..Len(o.outcome.doc) |-> o.outcome.doc[i].toObject])) :
      o \in MsgFind(store, 1) \cup MsgRaises(store) }
getMessages(store) ==
    { Returned(o,
        IF o.outcome.threw \/ ~o.outcome.found
        THEN Value(<<>>)
        ELSE Value([i \in 1..Len(o.outcome.doc) |-> o.outcome.doc[i].toObject])) :
      o \in MsgFind(store, 1) \cup MsgRaises(store) }

(***************************************************************************)
(* message.controller.ts                                                   *)
(***************************************************************************)
IdleMsgReq == [pc |-> "idle", kind |-> "none", body |-> NoValue,
               storage |-> "none", status |-> 0, res |-> NoValue]

\* what the storage call of a request did, as the request records it
StorageDid(outcome) ==
    IF outcome.threw THEN "raised" ELSE IF outcome.found THEN "ok" ELSE "null"

isRequestValidPresence(body) ==
    /\ TruthyObject(body, "messageToAdd")
    /\ \A f \in {"msg", "msgFrom", "msgDateTime"} : f \in DOMAIN body["messageToAdd"]
isRequestValidIgnoresSender(body) ==
    /\ TruthyObject(body, "messageToAdd")
    /\ Truthy(body["messageToAdd"], "msg")
    /\ Truthy(body["messageToAdd"], "msgDateTime")
isRequestValid(body) ==
    /\ TruthyObject(body, "messageToAdd")
    /\ Truthy(body["messageToAdd"], "msg")
    /\ Truthy(body["messageToAdd"], "msgFrom")
    /\ Truthy(body["messageToAdd"], "msgDateTime")

isMessageValid(message) ==
    /\ Truthy(message, "msg")
    /\ Truthy(message, "msgFrom")
    /\ Truthy(message, "msgDateTime")

MsgFree(c) == mreq[c].pc = "idle"
MsgAt(c, kind, pc) == mreq[c].pc = pc /\ mreq[c].kind = kind

MsgDone(r, status, res) == [r EXCEPT !.pc = "done", !.status = status, !.res = res]

\* POST /messaging/addMessage, up to the await of saveMessage
addMessageRoute(c) ==
    /\ MsgFree(c)
    /\ \E body \in AddMessageBodies :
         LET r == [IdleMsgReq EXCEPT !.kind = "addMessage", !.body = body] IN
         mreq' = [mreq EXCEPT ![c] =
            IF ~isRequestValid(body)
            THEN MsgDone(r, 400, [error |-> "Invalid message body"])
            ELSE IF ~isMessageValid(body["messageToAdd"])
            THEN MsgDone(r, 400, [error |-> "Invalid message object"])
            ELSE [r EXCEPT !.pc = "pending"]]
    /\ UNCHANGED <<users, ureq, messages, emitted>>

\* the awaited saveMessage, and the handler's test of its result
addMessageSaveAnswers400(c) ==
    /\ MsgAt(c, "addMessage", "pending")
    /\ \E o \in saveMessage(messages, mreq[c].body["messageToAdd"]) :
         /\ messages' = o.store
         /\ mreq' = [mreq EXCEPT ![c] =
               IF IsError(o.res)
               THEN MsgDone([@ EXCEPT !.storage = StorageDid(o.outcome)], 400,
                            [error |-> o.res.error])
               ELSE [@ EXCEPT !.pc = "saved", !.storage = StorageDid(o.outcome),
                              !.res = o.res]]
    /\ UNCHANGED <<users, ureq, emitted>>
addMessageSave(c) ==
    /\ MsgAt(c, "addMessage", "pending")
    /\ \E o \in saveMessage(messages, mreq[c].body["messageToAdd"]) :
         /\ messages' = o.store
         /\ mreq' = [mreq EXCEPT ![c] =
               IF IsError(o.res)
               THEN MsgDone([@ EXCEPT !.storage = StorageDid(o.outcome)], 500, o.res)
               ELSE [@ EXCEPT !.pc = "saved", !.storage = StorageDid(o.outcome),
                              !.res = o.res]]
    /\ UNCHANGED <<users, ureq, emitted>>

\* socket.emit('messageUpdate', {msg: msgFromDb}); an exception of emit is
\* caught by the handler
addMessageEmitAgain(c) ==
    /\ MsgAt(c, "addMessage", "saved")
    /\ \/ /\ emitted' = Append(Append(emitted,
                [event |-> "messageUpdate", payload |-> [msg |-> mreq[c].res]]),
                [event |-> "messageUpdate", payload |-> [msg |-> mreq[c].res]])
          /\ mreq' = [mreq EXCEPT ![c].pc = "emitted"]
       \/ /\ emitted' = emitted
          /\ mreq' = [mreq EXCEPT ![c] =
                MsgDone(@, 500, [error |-> "Failed to save message"])]
    /\ UNCHANGED <<users, ureq, messages>>
addMessageEmit(c) ==
    /\ MsgAt(c, "addMessage", "saved")
    /\ \/ /\ emitted' = Append(emitted,
                [event |-> "messageUpdate", payload |-> [msg |-> mreq[c].res]])
          /\ mreq' = [mreq EXCEPT ![c].pc = "emitted"]
       \/ /\ emitted' = emitted
          /\ mreq' = [mreq EXCEPT ![c] =
                MsgDone(@, 500, [error |-> "Failed to save message"])]
    /\ UNCHANGED <<users, ureq, messages>>

\* res.status(201).json(msgFromDb)
addMessageRespondEarly(c) ==
    /\ MsgAt(c, "addMessage", "saved")
    /\ mreq' = [mreq EXCEPT ![c] = MsgDone(@, 201, @.res)]
    /\ UNCHANGED <<users, ureq, messages, emitted>>
addMessageRespond(c) ==
    /\ MsgAt(c, "addMessage", "emitted")
    /\ mreq' = [mreq EXCEPT ![c] = MsgDone(@, 201, @.res)]
    /\ UNCHANGED <<users, ureq, messages, emitted>>

\* try { res.status(200).json(await getMessages()) }
\* catch { res.status(500).json({error: 'Failed to fetch messages'}) }
getMessagesResponse(r, returned) ==
    IF returned.threw
    THEN MsgDone(r, 500, [error |-> "Failed to fetch messages"])
    ELSE MsgDone(r, 200, returned.value)

\* GET /messaging/getMessages, up to the await of getMessages
getMessagesRoute(c) ==
    /\ MsgFree(c)
    /\ mreq' = [mreq EXCEPT ![c] =
          [IdleMsgReq EXCEPT !.kind = "getMessages", !.pc = "pending"]]
    /\ UNCHANGED <<users, ureq, messages, emitted>>

\* GET /messaging/getMessages, from the await of getMessages on
getMessagesRouteResume(c) ==
    /\ MsgAt(c, "getMessages", "pending")
    /\ \E o \in getMessages(messages) :
         /\ messages' = o.store
         /\ mreq' = [mreq EXCEPT ![c] =
               getMessagesResponse([@ EXCEPT !.storage = StorageDid(o.outcome)], o.res)]
    /\ UNCHANGED <<users, ureq, emitted>>

\* the client has read the response; its connection takes the next request
messageRequestEnd(c) ==
    /\ mreq[c].pc = "done"
    /\ mreq' = [mreq EXCEPT ![c] = IdleMsgReq]
    /\ UNCHANGED <<users, ureq, messages, emitted>>

(***************************************************************************)
(* client/src/services/messageService.ts                                   *)
(***************************************************************************)
\* addMessage, given the response of POST /messaging/addMessage
clientAddMessage(response) ==
    IF response.status # 200 /\ response.status # 201
    THEN Exception("Error while adding a new message to a chat")
    ELSE Value(response.data)

\* getMessages, given the response of GET /messaging/getMessages
clientGetMessagesAccepts201(response) ==
    IF response.status # 200 /\ response.status # 201
    THEN Exception("Error when fetching list of chats for the given user")
    ELSE Value(response.data)
clientGetMessages(response) ==
    IF response.status # 200
    THEN Exception("Error when fetching list of chats for the given user")
    ELSE Value(response.data)

(***************************************************************************)
(* Specifications.                                                         *)
(***************************************************************************)
Init ==
    /\ users = {}
    /\ ureq = [c \in Clients |-> IdleReq]
    /\ messages = <<>>
    /\ emitted = <<>>
    /\ mreq = [c \in Clients |-> IdleMsgReq]

NextUsers ==
    \E c \in Clients :
        \/ createUser(c)
        \/ createUserResume(c)
        \/ userLogin(c)
        \/ userLoginResume(c)
        \/ getUser(c)
        \/ getUserResume(c)
        \/ deleteUser(c)
        \/ deleteUserResume(c)
        \/ resetPassword(c)
        \/ resetPasswordResume(c)
        \/ userRequestEnd(c)

SpecUsers == Init /\ [][NextUsers]_vars

NextMessages ==
    \E c \in Clients :
        \/ addMessageRoute(c)
        \/ addMessageSave(c)
        \/ addMessageEmit(c)
        \/ addMessageRespond(c)
        \/ getMessagesRoute(c)
        \/ getMessagesRouteResume(c)
        \/ messageRequestEnd(c)

SpecMessages == Init /\ [][NextMessages]_vars

\* The two controllers together.  They share no variable, so a step of one
\* commutes with every step of the other; the user controller is run while
\* the message controller is in its initial state, and the other way round.
UsersAtRest == users = {} /\ ureq = [c \in Clients |-> IdleReq]
MessagesAtRest ==
    messages = <<>> /\ emitted = <<>> /\ mreq = [c \in Clients |-> IdleMsgReq]

NextControllers ==
    \/ MessagesAtRest /\ NextUsers
    \/ UsersAtRest /\ NextMessages

SpecControllers == Init /\ [][NextControllers]_vars

(***************************************************************************)
(* Properties of the user service and controller (under SpecUsers).       *)
(***************************************************************************)
SafeUserFields == {"_id", "username", "dateJoined"}

\* the arguments a caller may hand to the user service
Credentials == [username : Usernames \cup {""}, password : Passwords \cup {""}]
NewUsers == [username : Usernames, password : Passwords, dateJoined : Dates]
PasswordUpdates == [password : Passwords]

\* the results the five service operations can return on this collection
ServiceResults(store) ==
    { o.res : o \in UNION (
          { saveUser(store, u) : u \in NewUsers }
          \cup { getUserByUsername(store, n) : n \in Usernames }
          \cup { loginUser(store, cr) : cr \in Credentials }
          \cup { deleteUserByUsername(store, n) : n \in Usernames }
          \cup { updateUser(store, n, up) : n \in Usernames, up \in PasswordUpdates } ) }

UDone(c, kind) == ureq[c].pc = "done" /\ ureq[c].kind = kind

\* C1: every non-error result of saveUser, getUserByUsername, loginUser,
\* deleteUserByUsername and updateUser is a SafeUser with no password field,
\* and no 200/201 response body of the user endpoints holds a password.
C1_SuccessHasNoPassword ==
    /\ \A r \in ServiceResults(users) :
          ~IsError(r) => DOMAIN r = SafeUserFields /\ "password" \notin DOMAIN r
    /\ \A c \in Clients :
          ureq[c].pc = "done" /\ ureq[c].status \in {200, 201}
            => DOMAIN ureq[c].res = SafeUserFields

\* a login was answered 200 for a user whose stored record holds a password
C1_Witness ==
    \E c \in Clients :
        /\ UDone(c, "userLogin") /\ ureq[c].status = 200
        /\ \E u \in users : u._id = ureq[c].res._id /\ u.password = ureq[c].call.password

PasswordMatches(store, cr) ==
    \E u \in store : u.username = cr.username /\ u.password = cr.password

\* C2 as stated: loginUser returns the safe user if and only if the user
\* exists and its stored password equals the supplied one.
C2_LoginIffPasswordMatches ==
    \A cr \in Credentials : \A o \in loginUser(users, cr) :
        (~IsError(o.res)) <=> PasswordMatches(users, cr)

\* C2 (amended): whenever the lookup of the login does not raise, loginUser
\* returns the safe user of u if and only if u exists and its stored password
\* equals the supplied one (when the lookup raises it returns an error); the
\* stored password is the one given at signup or by the last successful
\* resetPassword, so after a reset the new password logs in and a different
\* old one does not.
C2_LoginIffPasswordMatchesUnlessRaise ==
    /\ [](\A cr \in Credentials : \A o \in loginUser(users, cr) :
            /\ o.outcome.threw => IsError(o.res)
            /\ ~o.outcome.threw =>
                 /\ (~IsError(o.res)) <=> PasswordMatches(users, cr)
                 /\ ~IsError(o.res) =>
                      o.res.username = cr.username /\ DOMAIN o.res = SafeUserFields)
    /\ [][\A c \in Clients :
            /\ createUserResume(c) /\ ureq'[c].status = 201 =>
                 \A u \in Matching(users', ureq[c].call.username) :
                     u.password = ureq[c].call.password
            /\ resetPasswordResume(c) /\ ureq'[c].status = 200 =>
                 LET name == ureq[c].call.username
                     new == ureq[c].call.updates.password
                 IN /\ \A u \in Matching(users', name) : u.password = new
                    /\ \E o \in loginUser(users', [username |-> name, password |-> new]) :
                          ~IsError(o.res)
                    /\ \A old \in Passwords \ {new} :
                          \A o \in loginUser(users', [username |-> name, password |-> old]) :
                              IsError(o.res)]_vars

\* a password was reset and the new password then logged in
C2_Witness ==
    \E c, d \in Clients :
        /\ UDone(c, "resetPassword") /\ ureq[c].status = 200
        /\ UDone(d, "userLogin") /\ ureq[d].status = 200
        /\ ureq[d].call.username = ureq[c].call.username
        /\ ureq[d].call.password = ureq[c].call.updates.password
        /\ ureq[d].res._id = ureq[c].res._id

NotFoundError == [error |-> "User not found."]
InvalidError == [error |-> "Invalid username or password."]

\* C3 as stated: "User not found." exactly when no user has the username,
\* "Invalid username or password." exactly when the user exists and the
\* supplied password differs from the stored one.
C3_LoginErrorsExact ==
    \A cr \in Credentials : \A o \in loginUser(users, cr) :
        /\ o.res = NotFoundError <=> Matching(users, cr.username) = {}
        /\ o.res = InvalidError <=>
              /\ Matching(users, cr.username) # {}
              /\ ~PasswordMatches(users, cr)

\* C3 (amended): whenever the lookup does not raise, loginUser returns
\* "User not found." exactly when no user has the username and "Invalid
\* username or password." exactly when the user exists and the supplied
\* password (an empty one included) differs from the stored one; the two
\* messages are never swapped, and when the lookup raises neither is returned.
C3_LoginErrorsExactUnlessRaise ==
    \A cr \in Credentials : \A o \in loginUser(users, cr) :
        /\ ~o.outcome.threw =>
             /\ o.res = NotFoundError <=> Matching(users, cr.username) = {}
             /\ o.res = InvalidError <=>
                   /\ Matching(users, cr.username) # {}
                   /\ ~PasswordMatches(users, cr)
        /\ o.outcome.threw => o.res \notin {NotFoundError, InvalidError}
        /\ o.res = NotFoundError => Matching(users, cr.username) = {}
        /\ o.res = InvalidError => Matching(users, cr.username) # {}

\* a login with a wrong password for an existing user was answered with
\* "Invalid username or password.", and an empty password would be too
C3_Witness ==
    \E c \in Clients :
        /\ UDone(c, "userLogin") /\ ureq[c].res = InvalidError
        /\ Matching(users, ureq[c].call.username) # {}
        /\ \E o \in loginUser(users, [username |-> ureq[c].call.username, password |-> ""]) :
              o.res = InvalidError
        /\ \E n \in Usernames : Matching(users, n) = {}

\* C4: the collection holds at most one user per username; a signup for a
\* username that exists is answered 400 with an error body and leaves the
\* collection unchanged; a signup is answered 201 only if the name was free,
\* and then a concurrent signup for the same name can only be refused.
C4_UsernamesUnique ==
    /\ [](\A u1, u2 \in users : u1.username = u2.username => u1 = u2)
    /\ [][\A c \in Clients : createUserResume(c) =>
            LET name == ureq[c].call.username IN
            /\ Matching(users, name) # {} =>
                 /\ ureq'[c].status = 400
                 /\ IsError(ureq'[c].res)
                 /\ users' = users
            /\ ureq'[c].status = 201 =>
                 /\ Matching(users, name) = {}
                 /\ Cardinality(Matching(users', name)) = 1
                 /\ \A d \in Clients \ {c} :
                      Awaiting(d, "createUser") /\ ureq[d].call.username = name =>
                        \A o \in saveUser(users', ureq[d].call) :
                            IsError(o.res) /\ o.store = users']_vars

\* two signups for one username: one answered 201, the other 400 with the
\* duplicate-key error, and the user of the first still stored
C4_Witness ==
    \E c, d \in Clients :
        /\ UDone(c, "createUser") /\ ureq[c].status = 201
        /\ UDone(d, "createUser") /\ ureq[d].status = 400
        /\ "username" \in DOMAIN ureq[d].call
        /\ ureq[d].call.username = ureq[c].call.username
        /\ Contains(ureq[d].res.error, "E11000 duplicate key error")
        /\ \E u \in users : u._id = ureq[c].res._id /\ u.password = ureq[c].call.password

(***************************************************************************)
(* Properties of the message service and controller (under SpecMessages). *)
(***************************************************************************)
MDone(c, kind) == mreq[c].pc = "done" /\ mreq[c].kind = kind

Count(seq, x) == Cardinality({ i \in 1..Len(seq) : seq[i] = x })

NonDecreasing(seq) ==
    \A i, j \in 1..Len(seq) : i < j => seq[i].msgDateTime <= seq[j].msgDateTime

NonIncreasing(seq) ==
    \A i, j \in 1..Len(seq) : i < j => seq[i].msgDateTime >= seq[j].msgDateTime

\* seq holds exactly the first Len(seq) saved messages, each once
ExactlySaved(seq, n) ==
    /\ Len(seq) = n
    /\ n <= Len(messages)
    /\ \A i \in 1..n : Count(seq, messages[i]) = 1

\* C5: when the storage read succeeds, getMessages returns exactly the saved
\* messages, each once, in non-decreasing msgDateTime whatever the order they
\* were saved in, and in the order storage returned them (ties included).
C5_GetMessagesAllAscending ==
    /\ \A o \in getMessages(messages) :
          o.outcome.found =>
            /\ ~o.res.threw
            /\ ExactlySaved(o.res.value, Len(messages))
            /\ NonDecreasing(o.res.value)
            /\ \A i \in 1..Len(o.res.value) :
                  o.res.value[i] = o.outcome.doc[i].toObject
    /\ \A c \in Clients :
          MDone(c, "getMessages") /\ mreq[c].storage = "ok" =>
            /\ ExactlySaved(mreq[c].res, Len(mreq[c].res))
            /\ NonDecreasing(mreq[c].res)

\* two messages saved newest first were fetched: both returned, oldest first
C5_Witness ==
    \E c \in Clients :
        /\ MDone(c, "getMessages") /\ mreq[c].storage = "ok"
        /\ Len(mreq[c].res) = 2 /\ Len(messages) = 2
        /\ messages[1].msgDateTime > messages[2].msgDateTime
        /\ mreq[c].res[1] = messages[2]
        /\ mreq[c].res[2] = messages[1]

\* the response the client wrapper receives for a request
HttpResponse(r) == [status |-> r.status, data |-> r.res]

C7_GetMessagesSwallowsFailure ==
    /\ \A o \in getMessages(messages) :
          /\ ~o.res.threw
          /\ ~o.outcome.found => o.res.value = <<>>
          /\ o.outcome.found => Len(o.res.value) = Len(messages)
          /\ o.store = messages
    /\ \A c \in Clients :
          MDone(c, "getMessages") /\ mreq[c].storage # "ok" => mreq[c].res = <<>>

\* with messages stored, a read that yielded null and a read that raised were
\* both answered with the empty sequence
C7_Witness ==
    /\ messages # <<>>
    /\ \E c, d \in Clients :
        /\ MDone(c, "getMessages") /\ mreq[c].storage = "null" /\ mreq[c].res = <<>>
        /\ MDone(d, "getMessages") /\ mreq[d].storage = "raised" /\ mreq[d].res = <<>>

\* C8 as stated: GET /messaging/getMessages responds 500 with "Failed to
\* fetch messages" when fetching the messages fails, and 200 with the list
\* otherwise.
C8_FetchFailureIs500 ==
    \A c \in Clients :
        MDone(c, "getMessages") =>
          IF mreq[c].storage = "ok"
          THEN mreq[c].status = 200
          ELSE /\ mreq[c].status = 500
               /\ Contains(mreq[c].res.error, "Failed to fetch messages")

\* C8 (amended): GET /messaging/getMessages always responds 200 with the
\* message list, which is empty when fetching from storage fails; the handler
\* answers 500 with "Failed to fetch messages" only for a getMessages call
\* that throws, and getMessages never throws.
C8_FetchAlways200 ==
    /\ \A c \in Clients :
          MDone(c, "getMessages") =>
            /\ mreq[c].status = 200
            /\ mreq[c].storage # "ok" => mreq[c].res = <<>>
    /\ \A o \in getMessages(messages) :
          getMessagesResponse(IdleMsgReq, o.res).status = 200
    /\ \A m \in MsgDbErrors :
          LET r == getMessagesResponse(IdleMsgReq, Exception(m)) IN
          r.status = 500 /\ Contains(r.res.error, "Failed to fetch messages")

\* with messages stored, a fetch whose storage read raised was answered 200
\* with the empty list
C8_Witness ==
    \E c \in Clients :
        /\ MDone(c, "getMessages") /\ mreq[c].storage = "raised"
        /\ mreq[c].status = 200 /\ mreq[c].res = <<>>
        /\ Len(messages) >= 2

\* the body has no messageToAdd, or its messageToAdd lacks one of the three
\* fields or holds the empty string for it
LacksField(body) ==
    \/ "messageToAdd" \notin DOMAIN body
    \/ \E f \in MessageFields :
         \/ f \notin DOMAIN body["messageToAdd"]
         \/ body["messageToAdd"][f] = ""

\* C9: an add-message request without messageToAdd, or whose messageToAdd
\* lacks or has empty msg, msgFrom or msgDateTime, is answered 400 with
\* "Invalid message body"; saveMessage is not called for it, nothing is
\* stored and no messageUpdate event is emitted.
C9_InvalidBodyRejected ==
    /\ [](\A c \in Clients :
            mreq[c].kind = "addMessage" /\ LacksField(mreq[c].body) =>
              /\ mreq[c].pc = "done"
              /\ mreq[c].status = 400
              /\ Contains(mreq[c].res.error, "Invalid message body")
              /\ mreq[c].storage = "none")
    /\ [][\A c \in Clients :
            /\ addMessageRoute(c) /\ LacksField(mreq'[c].body) =>
                 messages' = messages /\ emitted' = emitted
            /\ addMessageSave(c) \/ addMessageEmit(c) =>
                 ~LacksField(mreq[c].body)]_vars

\* with a message stored and its event emitted, a request with an empty
\* msgFrom and one without messageToAdd were answered 400
C9_Witness ==
    /\ Len(messages) = 1 /\ Len(emitted) = 1
    /\ \E c, d \in Clients :
        /\ MDone(c, "addMessage") /\ mreq[c].status = 400
        /\ "messageToAdd" \in DOMAIN mreq[c].body
        /\ "msgFrom" \in DOMAIN mreq[c].body["messageToAdd"]
        /\ mreq[c].body["messageToAdd"]["msgFrom"] = ""
        /\ MDone(d, "addMessage") /\ mreq[d].status = 400
        /\ "messageToAdd" \notin DOMAIN mreq[d].body

MessageUpdate(msg) == [event |-> "messageUpdate", payload |-> [msg |-> msg]]

Emitted(msg) == \E i \in 1..Len(emitted) : emitted[i] = MessageUpdate(msg)

Stored(msg) == \E i \in 1..Len(messages) : messages[i] = msg

\* C10: a messageUpdate event is emitted only by a request whose saveMessage
\* has returned a saved message and whose response is not yet sent; its
\* payload is {msg: that saved message}; the 201 response is sent only after
\* the event and carries the same message.
C10_EmitAfterSaveBeforeResponse ==
    /\ [][emitted' # emitted =>
            \E c \in Clients :
                /\ MsgAt(c, "addMessage", "saved")
                /\ mreq[c].storage = "ok" /\ ~IsError(mreq[c].res)
                /\ Stored(mreq[c].res)
                /\ mreq[c].status = 0
                /\ emitted' = Append(emitted, MessageUpdate(mreq[c].res))
                /\ mreq'[c].status = 0]_vars
    /\ [][\A c \in Clients :
            mreq[c].status # 201 /\ mreq'[c].status = 201 =>
              /\ Emitted(mreq[c].res)
              /\ emitted' = emitted
              /\ mreq'[c].res = mreq[c].res]_vars
    /\ [](\A c \in Clients :
            MDone(c, "addMessage") /\ mreq[c].status = 201 =>
              Emitted(mreq[c].res) /\ Stored(mreq[c].res))

\* a message creation answered 201 with the saved message, its event emitted
C10_Witness ==
    \E c \in Clients :
        /\ MDone(c, "addMessage") /\ mreq[c].status = 201
        /\ Emitted(mreq[c].res)
        /\ Stored(mreq[c].res)
        /\ Len(emitted) = 2

\* no add-message request is between its call of saveMessage and its response
NoAddMessageInFlight ==
    \A c \in Clients :
        mreq[c].kind = "addMessage" => mreq[c].pc \in {"idle", "done"}

\* C11: once the add-message requests made so far are all answered, the
\* number of messageUpdate events emitted equals the number of messages
\* persisted, and a request answered 400, or whose save returned an error,
\* has emitted none.
C11_OneEventPerCreation ==
    /\ [](NoAddMessageInFlight => Len(emitted) = Len(messages))
    /\ [][\A c \in Clients :
            /\ addMessageRoute(c) /\ mreq'[c].status = 400 => emitted' = emitted
            /\ addMessageSave(c) /\ IsError(mreq'[c].res) =>
                 emitted' = emitted /\ mreq'[c].pc = "done"]_vars

FixedSaveError == [error |-> "Failed to save message"]

\* the texts saveMessage puts in its error object: the exception's message,
\* or the fallback text for an exception whose message is empty
SaveErrorTexts == (MsgDbErrors \ {""}) \cup {"Failed to save message"}

\* the request called saveMessage and has been answered
AddMessageAnswered(c) == MDone(c, "addMessage") /\ mreq[c].storage # "none"

\* C12 as stated: a valid add-message request is answered 201 with the saved
\* message when saveMessage returned a message, 500 with the service's own
\* error object when saveMessage returned an error value, and 500 with the
\* fixed "Failed to save message" only when an exception escaped inside the
\* handler (which, saveMessage never throwing, is after a successful save).
C12_FixedTextOnlyFromHandler ==
    \A c \in Clients :
        AddMessageAnswered(c) =>
          /\ mreq[c].storage = "ok" =>
               \/ mreq[c].status = 201 /\ Stored(mreq[c].res)
               \/ mreq[c].status = 500 /\ mreq[c].res = FixedSaveError
          /\ mreq[c].storage = "raised" =>
               /\ mreq[c].status = 500
               /\ IsError(mreq[c].res)
               /\ mreq[c].res # FixedSaveError

\* C12 (amended): a valid add-message request is answered 201 with the saved
\* message only when saveMessage returned a message and its event was
\* emitted; 500 with the service's own error object when saveMessage returned
\* an error value, whose text is the raw text of the storage exception or,
\* for an exception with an empty message, "Failed to save message"; and 500
\* with the handler's own "Failed to save message" when an exception escaped
\* inside the handler after the save.  No other status is produced.
C12_AddMessageStatusByOutcome ==
    /\ [](\A c \in Clients :
            AddMessageAnswered(c) =>
              /\ mreq[c].status \in {201, 500}
              /\ mreq[c].status = 201 =>
                   /\ mreq[c].storage = "ok"
                   /\ ~IsError(mreq[c].res)
                   /\ Stored(mreq[c].res) /\ Emitted(mreq[c].res)
              /\ mreq[c].storage = "raised" =>
                   /\ mreq[c].status = 500
                   /\ DOMAIN mreq[c].res = {"error"}
                   /\ mreq[c].res.error \in SaveErrorTexts
              /\ mreq[c].storage = "ok" /\ mreq[c].status = 500 =>
                   mreq[c].res = FixedSaveError)
    /\ [][\A c \in Clients :
            /\ addMessageSave(c) /\ mreq'[c].status = 500 =>
                 \E o \in saveMessage(messages, mreq[c].body["messageToAdd"]) :
                     o.outcome.threw /\ mreq'[c].res = o.res /\ messages' = messages
            /\ addMessageEmit(c) /\ mreq'[c].status = 500 =>
                 emitted' = emitted /\ mreq'[c].res = FixedSaveError
            /\ addMessageRespond(c) =>
                 mreq'[c].status = 201 /\ mreq'[c].res = mreq[c].res]_vars

\* one request answered 500 with the raw text of the storage exception,
\* another answered 201 with the message it saved
C12_Witness ==
    \E c, d \in Clients :
        /\ AddMessageAnswered(c) /\ mreq[c].status = 500
        /\ mreq[c].storage = "raised" /\ mreq[c].res = [error |-> "DB error"]
        /\ AddMessageAnswered(d) /\ mreq[d].status = 201
        /\ Stored(mreq[d].res)

(***************************************************************************)
(* Properties of the user controller (under SpecUsers).                   *)
(***************************************************************************)
\* the awaited service call of GET or DELETE /user/:username returns
LookupResume(c) == getUserResume(c) \/ deleteUserResume(c)

\* the error text carries the message of a storage exception
CarriesDbError(text) == \E m \in UserDbErrors : Contains(text, m)

\* C13 as stated: GET and DELETE /user/:username for a username not in the
\* store are answered 404 with an error containing "User not found" and leave
\* the store unchanged; for an existing username they are answered 200 with
\* that user's SafeUser.
C13_LookupStatuses ==
    [][\A c \in Clients : LookupResume(c) =>
         LET name == ureq[c].call.username IN
         IF Matching(users, name) = {}
         THEN /\ ureq'[c].status = 404
              /\ Contains(ureq'[c].res.error, "User not found")
              /\ users' = users
         ELSE /\ ureq'[c].status = 200
              /\ \E u \in Matching(users, name) : ureq'[c].res = StripPassword(u)]_vars

\* C13 (amended): provided the storage call does not raise, GET and DELETE
\* /user/:username for a username not in the store are answered 404 with an
\* error containing "User not found", and for an existing username 200 with
\* that user's SafeUser; every 404 leaves the store unchanged, and a 404
\* without "User not found" carries the message of the storage exception.
C13_LookupStatusesUnlessRaise ==
    /\ [](\A n \in Usernames :
            \A o \in getUserByUsername(users, n) \cup deleteUserByUsername(users, n) :
                /\ o.outcome.threw <=> IsError(o.res) /\ CarriesDbError(o.res.error)
                /\ ~o.outcome.threw =>
                     (IsError(o.res) <=> Matching(users, n) = {}))
    /\ [][\A c \in Clients : LookupResume(c) =>
            LET name == ureq[c].call.username
                r == ureq'[c]
            IN /\ r.status \in {200, 404}
               /\ r.status = 404 =>
                    /\ users' = users
                    /\ DOMAIN r.res = {"error"}
                    /\ \/ Contains(r.res.error, "User not found") /\ Matching(users, name) = {}
                       \/ CarriesDbError(r.res.error)
               /\ r.status = 200 =>
                    /\ \E u \in Matching(users, name) : r.res = StripPassword(u)
                    /\ getUserResume(c) => users' = users
               /\ Matching(users, name) = {} => r.status = 404]_vars

\* with a user stored, a fetch of a missing username was answered 404 "User
\* not found" and a delete of an existing one 200 with its SafeUser
C13_Witness ==
    \E c, d \in Clients :
        /\ UDone(c, "getUser") /\ ureq[c].status = 404
        /\ ureq[c].res = [error |-> "User not found"]
        /\ UDone(d, "deleteUser") /\ ureq[d].status = 200
        /\ ureq[d].res.username = ureq[d].call.username
        /\ users # {}

\* the body has a missing or empty username, or a missing or empty password
LacksCredential(body) ==
    \E f \in UserFields : f \notin DOMAIN body \/ body[f] = ""

RequiredText(kind) ==
    IF kind = "resetPassword" THEN "Username and new password are required."
    ELSE "Username and password are required."

CredentialKinds == {"createUser", "userLogin", "resetPassword"}

\* C14: a signup, login or reset-password request whose body has a missing or
\* empty username or password is answered 400 with "Username and password
\* are required." ("Username and new password are required." for reset); no
\* service call is built or made for it and the user store is unchanged.
C14_MissingCredentialRejected ==
    /\ [](\A c \in Clients :
            ureq[c].kind \in CredentialKinds /\ LacksCredential(ureq[c].body) =>
              /\ ureq[c].pc = "done"
              /\ ureq[c].status = 400
              /\ ureq[c].res = [error |-> RequiredText(ureq[c].kind)]
              /\ ureq[c].call = NoValue)
    /\ [][\A c \in Clients :
            /\ (createUser(c) \/ userLogin(c) \/ resetPassword(c))
                 /\ LacksCredential(ureq'[c].body) => users' = users
            /\ createUserResume(c) \/ userLoginResume(c) \/ resetPasswordResume(c) =>
                 ~LacksCredential(ureq[c].body)]_vars

\* with a user stored, a signup without password and a reset with an empty
\* password were answered 400
C14_Witness ==
    \E c, d \in Clients :
        /\ UDone(c, "createUser") /\ ureq[c].status = 400
        /\ "password" \notin DOMAIN ureq[c].body
        /\ ureq[c].res = [error |-> "Username and password are required."]
        /\ UDone(d, "resetPassword") /\ ureq[d].status = 400
        /\ ureq[d].body = MkBody(UserFields, "sana", "")
        /\ ureq[d].res = [error |-> "Username and new password are required."]
        /\ \E u \in users : u.username = "sana"

ServerError == [error |-> "Server error."]

\* the document UserModel.create stores for the user handed to saveUser
IsDocumentOf(doc, user) ==
    /\ DOMAIN doc = SafeUserFields \cup {"password"}
    /\ doc.username = user.username
    /\ doc.password = user.password
    /\ doc.dateJoined = user.dateJoined

\* C15: a valid signup hands saveUser the request's username and password and
\* a dateJoined read from the server clock; it is answered 201 with the
\* SafeUser of the stored document when the storage call succeeds, and 400
\* with "Error when saving user: <message>" when the storage call raises, be
\* it for a duplicate username or any other failure; the handler answers 500
\* "Server error." only to a rejected service call, which saveUser never is.
C15_SignupStatusByOutcome ==
    /\ [](\A c \in Clients :
            /\ ureq[c].kind = "createUser" /\ ~LacksCredential(ureq[c].body) =>
                 /\ ureq[c].call.username = ureq[c].body["username"]
                 /\ ureq[c].call.password = ureq[c].body["password"]
                 /\ ureq[c].call.dateJoined \in Dates
                 /\ "dateJoined" \notin DOMAIN ureq[c].body
            /\ UDone(c, "createUser") => ureq[c].status \in {201, 400}
            /\ \A m \in UserDbErrors :
                 LET r == Respond(ureq[c], Rejection(m), 400, 201)
                 IN r.status = 500 /\ r.res = ServerError)
    /\ [][\A c \in Clients : createUserResume(c) =>
            LET user == ureq[c].call
                r == ureq'[c]
            IN \E o \in Create(users, user) \cup Raises(users) :
                 /\ users' = o.store
                 /\ IF o.outcome.threw
                    THEN /\ r.status = 400
                         /\ r.res = [error |-> "Error when saving user: "
                                                  \o o.outcome.message]
                         /\ users' = users
                    ELSE /\ r.status = 201
                         /\ IsDocumentOf(o.outcome.doc, user)
                         /\ r.res = StripPassword(o.outcome.doc)
                         /\ "password" \notin DOMAIN r.res]_vars

\* a signup for a free username was answered 400 because storage raised, and
\* a signup was answered 201 with the name and date handed to saveUser
C15_Witness ==
    \E c, d \in Clients :
        /\ UDone(c, "createUser") /\ ureq[c].status = 400
        /\ ureq[c].res = [error |-> "Error when saving user: DB error"]
        /\ Matching(users, ureq[c].body["username"]) = {}
        /\ UDone(d, "createUser") /\ ureq[d].status = 201
        /\ ureq[d].res.username = ureq[d].body["username"]
        /\ ureq[d].res.dateJoined = ureq[d].call.dateJoined

\* C16: a login with non-empty username and password is answered 200 with
\* the SafeUser when loginUser succeeds and 401 for every error value it
\* returns: a wrong password, a nonexistent username and a failed lookup are
\* all 401, never 404, with the error text of the service as the body.
C16_LoginStatuses ==
    /\ [](\A c \in Clients :
            UDone(c, "userLogin") /\ ~LacksCredential(ureq[c].body) =>
              /\ ureq[c].status \in {200, 401}
              /\ ureq[c].status = 200 <=> ~IsError(ureq[c].res))
    /\ [][\A c \in Clients : userLoginResume(c) =>
            LET cr == ureq[c].call
                r == ureq'[c]
            IN /\ users' = users
               /\ r.status = 200 =>
                    /\ PasswordMatches(users, cr)
                    /\ \E u \in Matching(users, cr.username) : r.res = StripPassword(u)
               /\ Matching(users, cr.username) = {} =>
                    /\ r.status = 401
                    /\ r.res = NotFoundError \/ CarriesDbError(r.res.error)
               /\ Matching(users, cr.username) # {} /\ ~PasswordMatches(users, cr) =>
                    /\ r.status = 401
                    /\ r.res = InvalidError \/ CarriesDbError(r.res.error)
               /\ r.status = 401 =>
                    \E o \in loginUser(users, cr) :
                        IsError(o.res) /\ r.res = [error |-> o.res.error]]_vars

\* a login for a nonexistent username and a login with a wrong password for
\* an existing user were both answered 401, each with its own text
C16_Witness ==
    \E c, d \in Clients :
        /\ UDone(c, "userLogin") /\ ureq[c].status = 401
        /\ ureq[c].res = NotFoundError
        /\ UDone(d, "userLogin") /\ ureq[d].status = 401
        /\ ureq[d].res = InvalidError
        /\ Matching(users, ureq[d].call.username) # {}

\* the collection after only the password of u was set to new
WithPassword(store, u, new) == (store \ {u}) \cup {[u EXCEPT !.password = new]}

\* what a successful reset of the password of name to new does
ResetFrame(c, name, new) ==
    \E u \in Matching(users, name) :
        /\ users' = WithPassword(users, u, new)
        /\ ureq'[c].res = StripPassword(u)
        /\ \A v \in users : v.username # name => v \in users'
        /\ \A v \in users' : v.username = name =>
              v._id = u._id /\ v.dateJoined = u.dateJoined /\ v.password = new
        /\ Cardinality(users') = Cardinality(users)

\* C17 as stated: a successful reset passes only the password to updateUser
\* and changes only that user's stored password, answering 200 with the
\* SafeUser; for a username that does not exist the answer is 404 with "User
\* not found" and no user is created or modified.
C17_ResetFrame ==
    [][\A c \in Clients : resetPasswordResume(c) =>
         LET name == ureq[c].call.username
             new == ureq[c].call.updates.password
         IN /\ DOMAIN ureq[c].call.updates = {"password"}
            /\ ureq'[c].status = 200 => ResetFrame(c, name, new)
            /\ Matching(users, name) = {} =>
                 /\ ureq'[c].status = 404
                 /\ Contains(ureq'[c].res.error, "User not found")
                 /\ users' = users]_vars

\* C17 (amended): a successful reset passes only the password to updateUser
\* and changes only that user's stored password, answering 200 with the
\* SafeUser; for a username that does not exist the answer is 404 and no
\* user is created or modified, the error being "User not found." provided
\* the storage call does not raise and the service's failure text with the
\* exception's message when it does.
C17_ResetFrameUnlessRaise ==
    /\ [](\A c \in Clients :
            ureq[c].kind = "resetPassword" /\ ureq[c].pc = "pending" =>
              /\ DOMAIN ureq[c].call.updates = {"password"}
              /\ ureq[c].call.updates.password = ureq[c].body["password"]
              /\ ureq[c].call.username = ureq[c].body["username"])
    /\ [](\A n \in Usernames, up \in PasswordUpdates :
            \A o \in updateUser(users, n, up) :
                ~o.outcome.threw /\ Matching(users, n) = {} =>
                    o.res = NotFoundError /\ o.store = users)
    /\ [][\A c \in Clients : resetPasswordResume(c) =>
            LET name == ureq[c].call.username
                new == ureq[c].call.updates.password
                r == ureq'[c]
            IN /\ r.status \in {200, 404}
               /\ r.status = 200 => ResetFrame(c, name, new)
               /\ r.status = 404 =>
                    /\ users' = users
                    /\ \/ r.res = NotFoundError /\ Matching(users, name) = {}
                       \/ CarriesDbError(r.res.error)
               /\ Matching(users, name) = {} => r.status = 404]_vars

\* with two users stored, the password one of them signed up with was reset
\* to a different one
C17_Witness ==
    \E c, d \in Clients :
        /\ UDone(c, "resetPassword") /\ ureq[c].status = 200
        /\ UDone(d, "createUser") /\ ureq[d].status = 201
        /\ ureq[d].res = ureq[c].res
        /\ ureq[d].call.password # ureq[c].call.updates.password
        /\ \E u \in users : /\ u._id = ureq[c].res._id
                            /\ u.password = ureq[c].call.updates.password
                            /\ u.dateJoined = ureq[d].call.dateJoined
        /\ Cardinality(users) = 2

\* what the five service operations can do on this collection
ServiceOutcomes(store) ==
    UNION ( { saveUser(store, u) : u \in NewUsers }
            \cup { getUserByUsername(store, n) : n \in Usernames }
            \cup { loginUser(store, cr) : cr \in Credentials }
            \cup { deleteUserByUsername(store, n) : n \in Usernames }
            \cup { updateUser(store, n, up) : n \in Usernames, up \in PasswordUpdates } )

\* C18: saveUser, getUserByUsername, loginUser, deleteUserByUsername and
\* updateUser never throw; when their storage call raises they return
\* {error: text} with the exception's message in the text, make no further
\* storage call, and leave the collection as the failed call left it.
C18_ServicesNeverThrow ==
    /\ \A o \in ServiceOutcomes(users) :
          /\ ~IsRejection(o.res)
          /\ o.outcome.threw =>
               /\ DOMAIN o.res = {"error"}
               /\ Contains(o.res.error, o.outcome.message)
               /\ o.store = users
    /\ \A c \in Clients :
          ureq[c].pc = "done" => ureq[c].status # 500

\* with the user still stored, a delete and a reset of it whose storage call
\* raised were answered with the service's error value
C18_Witness ==
    \E c, d \in Clients :
        /\ UDone(c, "deleteUser")
        /\ ureq[c].res = [error |-> "Error deleting user: DB error"]
        /\ UDone(d, "resetPassword")
        /\ ureq[d].res = [error |-> "Error updating user: DB error"]
        /\ ureq[d].call.username = ureq[c].call.username
        /\ Matching(users, ureq[c].call.username) # {}

\* the endpoints whose handlers answer an error value with 401 or 404
GuardedKinds == {"userLogin", "resetPassword", "deleteUser", "getUser"}

ErrorStatus(kind) == IF kind = "userLogin" THEN 401 ELSE 404

\* C19 as stated: for login, reset-password, delete-user and get-user a
\* failure such as the storage call raising is answered 500 "Server error.",
\* and no response body of these endpoints holds the text of the underlying
\* error.
C19_FailureIs500NoLeak ==
    \A c \in Clients :
        ureq[c].pc = "done" /\ ureq[c].kind \in GuardedKinds =>
          /\ ureq[c].status = 500 => ureq[c].res = ServerError
          /\ IsError(ureq[c].res) => ~CarriesDbError(ureq[c].res.error)

\* C19 (amended): for login, reset-password, delete-user and get-user, a
\* rejected service call is answered 500 with the fixed "Server error.",
\* which holds no internal text; but the services reject no call: a storage
\* call that raises comes back as an error value and is answered 401 (login)
\* or 404 (the others) with the service's text, the exception's message
\* included, and the collection is left unchanged.
C19_RaiseIsErrorValue ==
    /\ [](\A c \in Clients :
            ureq[c].pc = "done" /\ ureq[c].kind \in GuardedKinds =>
              /\ ureq[c].status \in {200, 400, ErrorStatus(ureq[c].kind)}
              /\ ureq[c].status = 400 => ureq[c].call = NoValue
              /\ \A m \in UserDbErrors :
                   LET r == Respond(ureq[c], Rejection(m), ErrorStatus(ureq[c].kind), 200)
                   IN /\ r.status = 500 /\ r.res = ServerError
                      /\ ~CarriesDbError(r.res.error))
    /\ [][\A c \in Clients :
            ( /\ ureq[c].pc = "pending" /\ ureq'[c].pc = "done"
              /\ ureq[c].kind \in GuardedKinds
              /\ IsError(ureq'[c].res) /\ CarriesDbError(ureq'[c].res.error) )
            => ( /\ ureq'[c].status = ErrorStatus(ureq[c].kind)
                 /\ users' = users )]_vars

\* a fetch and a login of a stored user whose storage calls raised were
\* answered 404 and 401 with the text of the exception in the body
C19_Witness ==
    \E c, d \in Clients :
        /\ UDone(c, "getUser") /\ ureq[c].status = 404
        /\ ureq[c].res = [error |-> "Error when saving user: DB error"]
        /\ UDone(d, "userLogin") /\ ureq[d].status = 401
        /\ ureq[d].res = [error |-> "Error logging in user saving user: DB error"]
        /\ PasswordMatches(users, ureq[d].call)
        /\ Matching(users, ureq[c].call.username) # {}

\* C20: when its storage call raises, getUserByUsername returns an error
\* containing "Error when finding user", as saveUser's contains "Error when
\* saving user", deleteUserByUsername's "Error deleting user" and
\* updateUser's "Error updating user".
C20_FailureTexts ==
    /\ \A n \in Usernames : \A o \in getUserByUsername(users, n) :
          o.outcome.threw => Contains(o.res.error, "Error when finding user")
    /\ \A u \in NewUsers : \A o \in saveUser(users, u) :
          o.outcome.threw => Contains(o.res.error, "Error when saving user")
    /\ \A n \in Usernames : \A o \in deleteUserByUsername(users, n) :
          o.outcome.threw => Contains(o.res.error, "Error deleting user")
    /\ \A n \in Usernames, up \in PasswordUpdates : \A o \in updateUser(users, n, up) :
          o.outcome.threw => Contains(o.res.error, "Error updating user")

(***************************************************************************)
(* Properties of the client wrappers (under SpecMessages).                *)
(***************************************************************************)
\* statuses a response may carry, those the server never sends included
HttpStatuses == {200, 201, 204, 400, 404, 500}

AddMessageFailure == "Error while adding a new message to a chat"
GetMessagesFailure == "Error when fetching list of chats for the given user"

\* the wrapper returned exactly data, or threw exactly text
ReturnsOrThrows(result, returns, data, text) ==
    /\ result.threw = ~returns
    /\ returns => result.value = data
    /\ ~returns => result.value = text

LookupResults(store, username, all) ==
    { o.res : o \in { x \in UNION {
          getUserByUsername(store, username),
          UNION { loginUser(store, [username |-> username, password |-> p]) :
                    p \in Passwords },
          UNION { updateUser(store, username, up) : up \in PasswordUpdates },
          deleteUserByUsername(store, username) } :
        all \/ ~x.outcome.threw } }

NotFoundResults == { [error |-> "User not found"], NotFoundError }

\* a successful delete removes exactly the user of that name and returns its
\* SafeUser
DeleteFrame(c, name) ==
    \E u \in Matching(users, name) :
        /\ users' = users \ {u}
        /\ ureq'[c].res = StripPassword(u)
        /\ Matching(users', name) = {}
        /\ \A v \in users : v.username # name => v \in users'

\* a username comes into the collection only by a signup answered 201
OnlySignupAdds ==
    \A n \in Usernames :
        Matching(users, n) = {} /\ Matching(users', n) # {} =>
          \E c \in Clients :
              /\ createUserResume(c) /\ ureq[c].call.username = n
              /\ ureq'[c].status = 201

\* C22 as stated: a delete of an existing user removes exactly that user and
\* returns its SafeUser; from then on, until a new signup of the name,
\* getUserByUsername, loginUser, updateUser and a second deleteUserByUsername
\* for it fail with "User not found" / "User not found."; other users are
\* unaffected.
C22_DeletedStaysNotFound ==
    /\ [](\A n \in Usernames :
            Matching(users, n) = {} =>
              LookupResults(users, n, TRUE) \subseteq NotFoundResults)
    /\ [][\A c \in Clients :
            deleteUserResume(c) /\ Matching(users, ureq[c].call.username) # {} =>
              ureq'[c].status = 200 /\ DeleteFrame(c, ureq[c].call.username)]_vars
    /\ [][OnlySignupAdds]_vars

\* C22 (amended): a delete of an existing user whose storage call does not
\* raise removes exactly that user and returns its SafeUser; from then on,
\* until a new signup of the name, every getUserByUsername, loginUser,
\* updateUser and deleteUserByUsername for it fails and leaves the collection
\* unchanged, with "User not found" / "User not found." whenever its storage
\* call does not raise; other users are unaffected.
C22_DeletedStaysNotFoundUnlessRaise ==
    /\ [](\A n \in Usernames :
            Matching(users, n) = {} =>
              /\ LookupResults(users, n, FALSE) \subseteq NotFoundResults
              /\ \A r \in LookupResults(users, n, TRUE) : IsError(r)
              /\ \A o \in getUserByUsername(users, n) \cup deleteUserByUsername(users, n) :
                    o.store = users
              /\ \A o \in getUserByUsername(users, n) :
                    ~o.outcome.threw => o.res = [error |-> "User not found"]
              /\ \A o \in deleteUserByUsername(users, n) :
                    ~o.outcome.threw => o.res = NotFoundError)
    /\ [][\A c \in Clients :
            /\ deleteUserResume(c) /\ ureq'[c].status = 200 =>
                 DeleteFrame(c, ureq[c].call.username)
            /\ deleteUserResume(c) /\ Matching(users, ureq[c].call.username) # {}
                 /\ ureq'[c].status # 200 =>
                 users' = users /\ CarriesDbError(ureq'[c].res.error)]_vars
    /\ [][OnlySignupAdds]_vars

\* a user was deleted and a later fetch of it answered "User not found",
\* while another user stayed stored
C22_Witness ==
    \E c, d \in Clients :
        /\ UDone(c, "deleteUser") /\ ureq[c].status = 200
        /\ UDone(d, "getUser") /\ ureq[d].res = [error |-> "User not found"]
        /\ ureq[d].call.username = ureq[c].res.username
        /\ Matching(users, ureq[c].res.username) = {}
        /\ users # {}

\* c's delete returns while d's delete of the same, existing username waits
RacingDeletes(c, d) ==
    /\ c # d
    /\ deleteUserResume(c)
    /\ Awaiting(d, "deleteUser")
    /\ ureq[d].call.username = ureq[c].call.username
    /\ Matching(users, ureq[c].call.username) # {}

\* C26 as stated: of two concurrent deletes of one existing username, the
\* one whose storage call runs first is answered 200 with the deleted
\* SafeUser and the other can only be answered 404 "User not found."; the
\* user is removed exactly once.
C26_OneDeleteWins ==
    [][\A c, d \in Clients : RacingDeletes(c, d) =>
         LET name == ureq[c].call.username IN
         /\ ureq'[c].status = 200
         /\ DeleteFrame(c, name)
         /\ \A o \in deleteUserByUsername(users', name) :
               o.res = NotFoundError /\ o.store = users']_vars

\* C26 (amended): of two concurrent deletes of one existing username at most
\* one is answered 200 with the deleted SafeUser, and the user is removed at
\* most once: once one is answered 200, the other can only fail, with 404
\* "User not found." unless its storage call raises; a delete whose storage
\* call raises is answered 404 with the service's failure text and removes
\* nothing, so both may fail.
C26_OneDeleteWinsUnlessRaise ==
    /\ [][\A c, d \in Clients : RacingDeletes(c, d) =>
            LET name == ureq[c].call.username
                r == ureq'[c]
            IN \/ /\ r.status = 200
                  /\ DeleteFrame(c, name)
                  /\ \A o \in deleteUserByUsername(users', name) :
                        /\ IsError(o.res) /\ o.store = users'
                        /\ ~o.outcome.threw => o.res = NotFoundError
               \/ /\ r.status = 404
                  /\ CarriesDbError(r.res.error)
                  /\ users' = users]_vars
    /\ [][\A c \in Clients :
            deleteUserResume(c) /\ Matching(users, ureq[c].call.username) = {} =>
              /\ ureq'[c].status = 404
              /\ users' = users
              /\ ureq'[c].res = NotFoundError \/ CarriesDbError(ureq'[c].res.error)]_vars

\* two deletes of one username: one answered 200 with the SafeUser, the
\* other 404 "User not found.", the user gone and another user still stored
C26_Witness ==
    \E c, d \in Clients :
        /\ UDone(c, "deleteUser") /\ ureq[c].status = 200
        /\ UDone(d, "deleteUser") /\ ureq[d].status = 404
        /\ ureq[d].res = NotFoundError
        /\ ureq[d].call.username = ureq[c].res.username
        /\ Matching(users, ureq[c].res.username) = {}
        /\ users # {}

(***************************************************************************)
(* Properties of both controllers (under SpecControllers).                *)
(***************************************************************************)
\* the steps of one user request: validation, then the one awaited service
\* call, then the response read
UserProgress(a, b) ==
    \/ a.pc = "idle" /\ b.pc \in {"pending", "done"}
    \/ a.pc = "pending" /\ b.pc = "done"
    \/ a.pc = "done" /\ b = IdleReq

\* the steps of one message request: validation, the one awaited service
\* call, the one emission, the response, then the response read
MsgProgress(a, b) ==
    \/ a.pc = "idle" /\ b.pc \in {"pending", "done"}
    \/ a.pc = "pending" /\ b.pc \in {"saved", "done"}
    \/ a.pc = "saved" /\ b.pc \in {"emitted", "done"}
    \/ a.pc = "emitted" /\ b.pc = "done"
    \/ a.pc = "done" /\ b = IdleMsgReq

\* C23: a request of the user or message controller makes its service call
\* in one step that it takes at most once, each database change is the one
\* operation of one such step, and an add-message request appends at most one
\* messageUpdate event, in a step it takes at most once; a request rejected
\* by validation completes with no service call, no database change and no
\* event.
C23_OneCallOneEmit ==
    /\ [][\A c \in Clients :
            /\ ureq'[c] # ureq[c] => UserProgress(ureq[c], ureq'[c])
            /\ mreq'[c] # mreq[c] => MsgProgress(mreq[c], mreq'[c])]_vars
    /\ [][users' # users =>
            \E c \in Clients :
                /\ ureq[c].pc = "pending" /\ ureq'[c].pc = "done"
                /\ \A d \in Clients \ {c} : ureq'[d] = ureq[d]
                /\ Cardinality(users' \ users) <= 1
                /\ Cardinality(users \ users') <= 1]_vars
    /\ [][messages' # messages =>
            \E c \in Clients :
                /\ mreq[c].pc = "pending" /\ mreq'[c].pc = "saved"
                /\ mreq[c].storage = "none" /\ mreq'[c].storage = "ok"
                /\ \A d \in Clients \ {c} : mreq'[d] = mreq[d]
                /\ Len(messages') = Len(messages) + 1
                /\ emitted' = emitted]_vars
    /\ [][emitted' # emitted =>
            \E c \in Clients :
                /\ mreq[c].pc = "saved" /\ mreq'[c].pc = "emitted"
                /\ \A d \in Clients \ {c} : mreq'[d] = mreq[d]
                /\ Len(emitted') = Len(emitted) + 1
                /\ messages' = messages]_vars
    /\ [][\A c \in Clients :
            /\ mreq'[c].storage # mreq[c].storage =>
                 \/ mreq[c].storage = "none" /\ mreq[c].pc = "pending"
                 \/ mreq'[c] = IdleMsgReq
            /\ ureq[c].pc = "idle" /\ ureq'[c].pc = "done" =>
                 /\ ureq'[c].status = 400 /\ ureq'[c].call = NoValue
                 /\ users' = users
            /\ mreq[c].pc = "idle" /\ mreq'[c].pc = "done" =>
                 /\ mreq'[c].status = 400 /\ mreq'[c].storage = "none"
                 /\ messages' = messages /\ emitted' = emitted]_vars

\* an add-message request completed with its one save and its one event,
\* and another was rejected by validation without either
C23_Witness ==
    \E c, d \in Clients :
        /\ MDone(c, "addMessage") /\ mreq[c].status = 201
        /\ Len(messages) = 1 /\ Len(emitted) = 1
        /\ MDone(d, "addMessage") /\ mreq[d].status = 400
        /\ mreq[d].storage = "none"

(***************************************************************************)
(* Further properties of the message service and controller (under        *)
(* SpecMessages).                                                          *)
(***************************************************************************)
\* C24: saveMessage never throws; when the storage call succeeds it returns
\* the stored message; when the storage call raises it returns {error: m}
\* with m exactly the exception's message if that is non-empty and "Failed
\* to save message" if it is empty, and stores nothing.
C24_SaveMessageResult ==
    /\ \A message \in ValidMessages : \A o \in saveMessage(messages, message) :
          /\ ~IsRejection(o.res)
          /\ ~o.outcome.threw =>
               /\ ~IsError(o.res)
               /\ Len(o.store) = Len(messages) + 1
               /\ o.res = o.store[Len(o.store)]
               /\ o.res.msg = message["msg"] /\ o.res.msgFrom = message["msgFrom"]
               /\ o.res.msgDateTime = DateValue(message["msgDateTime"])
          /\ o.outcome.threw =>
               /\ DOMAIN o.res = {"error"}
               /\ o.outcome.message # "" => o.res.error = o.outcome.message
               /\ o.outcome.message = "" => o.res.error = "Failed to save message"
               /\ o.store = messages
    /\ \A c \in Clients :
          AddMessageAnswered(c) /\ mreq[c].storage = "raised" =>
            mreq[c].res.error \in SaveErrorTexts

\* one save failed with the text of its exception, another with the fixed
\* text of an exception without message; nothing was stored
C24_Witness ==
    \E c, d \in Clients :
        /\ AddMessageAnswered(c) /\ mreq[c].storage = "raised"
        /\ mreq[c].res = [error |-> "DB error"]
        /\ AddMessageAnswered(d) /\ mreq[d].storage = "raised"
        /\ mreq[d].res = FixedSaveError
        /\ messages = <<>>

\* C25: a body that passes isRequestValid has a messageToAdd that passes
\* isMessageValid, so no add-message request is answered "Invalid message
\* object": every 400 of POST /messaging/addMessage carries "Invalid message
\* body".
C25_SecondValidationNeverFails ==
    /\ \A body \in AddMessageBodies :
          isRequestValid(body) => isMessageValid(body["messageToAdd"])
    /\ \A c \in Clients :
          /\ mreq[c].kind = "addMessage" /\ mreq[c].pc # "idle" =>
               mreq[c].res # [error |-> "Invalid message object"]
          /\ MDone(c, "addMessage") /\ mreq[c].status = 400 =>
               /\ mreq[c].res = [error |-> "Invalid message body"]
               /\ ~isRequestValid(mreq[c].body)
          /\ mreq[c].kind = "addMessage" /\ mreq[c].pc \in {"pending", "saved", "emitted"} =>
               isRequestValid(mreq[c].body) /\ isMessageValid(mreq[c].body["messageToAdd"])

\* a request with an empty msgDateTime was answered 400 "Invalid message
\* body" while a valid one went on to be saved
C25_Witness ==
    \E c, d \in Clients :
        /\ MDone(c, "addMessage") /\ mreq[c].status = 400
        /\ mreq[c].body = [messageToAdd |-> MkMessage(MessageFields, "Hello", "User1", "")]
        /\ mreq[c].res = [error |-> "Invalid message body"]
        /\ MDone(d, "addMessage") /\ mreq[d].status = 201

\* C27 as stated: an add-message request answered with a status other than
\* 201 has added no message to the store, also when the emission fails after
\* the save: every message persisted was acknowledged with 201.
C27_Non201NotStored ==
    /\ [](\A c \in Clients :
            MDone(c, "addMessage") /\ mreq[c].status # 201 => mreq[c].storage # "ok")
    /\ [][\A c \in Clients :
            mreq[c].kind = "addMessage" /\ mreq[c].pc = "saved"
              /\ mreq'[c].pc = "done" => mreq'[c].status = 201]_vars

====
